---- MODULE Spec2Model ----
(***************************************************************************)
(* Floating-window registry of src-tauri/src/main.rs.                      *)
(*                                                                         *)
(* The program state is the managed WindowStore (a Mutex<Vec<String>>),    *)
(* the host's set of live windows (what app.get_webview_window sees) and,  *)
(* for every command in flight on a worker thread, its frame: the step it  *)
(* is at and its locals. The wall clock that create_floating_window reads  *)
(* is an input of the call: it can give any value, also an earlier one.    *)
(* Commands run concurrently; each action below is one step of one command *)
(* between two points where another thread can be observed.                *)
(***************************************************************************)
EXTENDS Naturals, Sequences, FiniteSets, Bags

\* ------------------------------------------------------------------ bounds

NumProcs == 2       \* worker threads running commands concurrently
MaxClock == 2       \* the clock reads 0..MaxClock milliseconds
MaxCalls == 3       \* commands invoked in one behaviour
MaxCallsWide == 4   \* commands invoked in one behaviour of SpecWide


\* ----------------------------------------------------------------- strings

Digit(d) ==
    CASE d = 0 -> "0" [] d = 1 -> "1" [] d = 2 -> "2" [] d = 3 -> "3"
      [] d = 4 -> "4" [] d = 5 -> "5" [] d = 6 -> "6" [] d = 7 -> "7"
      [] d = 8 -> "8" [] d = 9 -> "9"

RECURSIVE ToDecimal(_)
\* "{}" of a non-negative integer: its decimal digits, most significant first.
ToDecimal(n) ==
    IF n < 10 THEN <<Digit(n)>> ELSE ToDecimal(n \div 10) \o <<Digit(n % 10)>>

Prefix == <<"f", "l", "o", "a", "t", "i", "n", "g", "-">>

\* A mutant of WindowId: the id without its prefix.
WindowIdNoPrefix(ts) == ToDecimal(ts)

\* format!("floating-{}", timestamp_millis)
WindowId(ts) == Prefix \o ToDecimal(ts)

StartsWith(s, pre) ==
    /\ Len(s) >= Len(pre)
    /\ SubSeq(s, 1, Len(pre)) = pre

\* The label of the application's main window, which the host holds from start.
MainLabel == <<"m", "a", "i", "n">>

\* A label no window ever carries.
Nonexistent == Prefix \o <<"n", "o", "n", "e", "x", "i", "s", "t", "e", "n", "t">>

\* The window_id arguments a caller passes to close, reposition and resize.
IdArgs == {WindowId(t) : t \in 0..MaxClock} \cup {MainLabel, Nonexistent}

\* ------------------------------------------------------------ host geometry

DefaultSize == <<400, 300>>
DefaultPosition == <<100, 100>>
\* The x, y and width, height arguments of update_window_position / _size.
PositionArgs == {<<10, 20>>}
SizeArgs == {<<640, 480>>}
NoGeometry == <<>>

NewWindow == [pos |-> DefaultPosition, size |-> DefaultSize]

\* The errors the host reports.
HostErrors == {"host error"}

\* ----------------------------------------------------------------- results

None == [tag |-> "None", val |-> <<>>]
OkId(id) == [tag |-> "OkId", val |-> id]
OkUnit == [tag |-> "OkUnit", val |-> <<>>]
OkList(l) == [tag |-> "OkList", val |-> l]
Err(msg, e) == [tag |-> "Err", val |-> <<msg, e>>]
\* A mutant of NotFound: a command whose window is not found returns Ok.
NotFoundAsOk == OkUnit

NotFound == [tag |-> "Err", val |-> <<"Window not found">>]

HostOk == [tag |-> "HostOk", val |-> <<>>]
HostErr(e) == [tag |-> "HostErr", val |-> <<e>>]
HostResults == {HostOk} \cup {HostErr(e) : e \in HostErrors}


\* ------------------------------------------------------------------- state

VARIABLES
    registry,     \* the Vec<String> inside the WindowStore mutex
    lock,         \* whether a thread holds the WindowStore mutex
    hostWindows,  \* the host's live windows: label -> geometry
    frames,       \* the commands in flight: a bag of frames (step and locals)
    response,     \* what the command that returned in the last step returned
    budget,       \* commands the front end can still invoke in this behaviour
    returned,     \* history: the labels create() has returned
    buildOrder,   \* history: labels in the order the host built their windows
    closedSinceBuild,   \* history: labels close() returned Ok for since their last build
    closedSinceReturn,  \* history: labels close() returned Ok for since create() last returned them
    okCreates,    \* history: create() calls that returned Ok
    closeInvoked, \* history: close() has been invoked
    destroyed     \* history: labels listed ever since the host destroyed a
                  \* window of theirs outside close()

vars == <<registry, lock, hostWindows, frames, response, budget, returned,
          buildOrder, closedSinceBuild, closedSinceReturn, okCreates,
          closeInvoked, destroyed>>

histVars == <<returned, buildOrder, closedSinceBuild, closedSinceReturn,
              okCreates, closeInvoked, destroyed>>

\* ------------------------------------------------------ the host's window set

Live == DOMAIN hostWindows

\* A mutant of Lookup: the window is looked up in the registry.
LookupRegistry(id) == \E i \in 1..Len(registry) : registry[i] = id

\* app.get_webview_window(&window_id): the lookup is in the host's live set.
Lookup(id) == id \in Live

HostInsert(hw, id, w) ==
    [l \in DOMAIN hw \cup {id} |-> IF l = id THEN w ELSE hw[l]]

HostRemove(hw, id) ==
    [l \in DOMAIN hw \ {id} |-> hw[l]]

\* A mutant of SetPosition: the size is overwritten too.
SetPositionAndSize(hw, id, xy) ==
    IF id \in DOMAIN hw
    THEN [hw EXCEPT ![id] = [pos |-> xy, size |-> xy]]
    ELSE hw

\* window.set_position(LogicalPosition::new(x, y)) on a window the host still holds
SetPosition(hw, id, xy) ==
    IF id \in DOMAIN hw THEN [hw EXCEPT ![id].pos = xy] ELSE hw

\* window.set_size(LogicalSize::new(width, height)) on a window the host still holds
SetSize(hw, id, wh) ==
    IF id \in DOMAIN hw THEN [hw EXCEPT ![id].size = wh] ELSE hw

\* ------------------------------------------------------- the registry's steps

\* A mutant of Push: the id goes to the front.
PushFront(store, id) == <<id>> \o store

\* A mutant of Push: the id is stored twice.
PushTwice(store, id) == Append(Append(store, id), id)

\* A mutant of Push: the store is overwritten, so earlier appends are lost.
PushReplace(store, id) == <<id>>

\* store.push(window_id.clone())
Push(store, id) == Append(store, id)

\* A mutant of Retain: nothing is removed.
RetainAll(store, id) == store

\* A mutant of Retain: the entries before the first match go too.
RECURSIVE RetainAfter(_, _)
RetainAfter(store, id) ==
    IF store = <<>> THEN <<>>
    ELSE IF Head(store) = id THEN Tail(store)
    ELSE RetainAfter(Tail(store), id)

\* A mutant of Retain: Vec::swap_remove of the first match, which puts the
\* last entry in its place.
RetainSwapRemove(store, id) ==
    IF \A i \in 1..Len(store) : store[i] # id THEN store
    ELSE LET first == CHOOSE i \in 1..Len(store) :
                        /\ store[i] = id
                        /\ \A k \in 1..(i - 1) : store[k] # id
         IN  [k \in 1..(Len(store) - 1) |->
                IF k = first THEN store[Len(store)] ELSE store[k]]

RECURSIVE Retain(_, _)
\* store.retain(|id| id != &window_id): every entry equal to id goes, the rest
\* keep their order.
Retain(store, id) ==
    IF store = <<>> THEN <<>>
    ELSE IF Head(store) = id THEN Retain(Tail(store), id)
    ELSE <<Head(store)>> \o Retain(Tail(store), id)

\* A mutant of Clone: ids whose window the host no longer holds are dropped.
CloneLive(store) == SelectSeq(store, LAMBDA id : id \in Live)

\* window_store.lock().unwrap().clone()
Clone(store) == store

Range(s) == {s[i] : i \in 1..Len(s)}

\* ------------------------------------------------------------------ frames

\* The frame of a command: the step it is at, its window_id (generated by
\* create, else the argument), its (x, y) or (width, height) argument, the
\* result of its host call, the registry entries it has added or removed and
\* the events it has emitted, in order (window emitted on, event, payload).
Frame(step, name, id, g) ==
    [pc |-> step, op |-> name, wid |-> id, geo |-> g, host |-> None,
     muts |-> 0, emits |-> <<>>]

InFlight == BagToSet(frames)

NoResponse ==
    [op |-> "none", wid |-> <<>>, ret |-> None, host |-> None, sent |-> None,
     muts |-> 0, emits |-> <<>>]

\* ------------------------------------------------------------------- Init

\* .manage(WindowStore::new(Vec::new())): the registry starts empty and
\* unlocked; the host holds the main window; no command has run, and the
\* front end is to invoke up to n of them.
InitWith(n) ==
    /\ registry = <<>>
    /\ lock = FALSE
    /\ hostWindows = [l \in {MainLabel} |-> NewWindow]
    /\ frames = EmptyBag
    /\ response = NoResponse
    /\ budget = n
    /\ returned = {}
    /\ buildOrder = <<>>
    /\ closedSinceBuild = {}
    /\ closedSinceReturn = {}
    /\ okCreates = 0
    /\ closeInvoked = FALSE
    /\ destroyed = {}

Init == InitWith(MaxCalls)

\* The same start with a front end that invokes up to MaxCallsWide commands.
InitWide == InitWith(MaxCallsWide)

\* The front end may invoke a command: a worker thread is free for it.
Free ==
    /\ budget > 0
    /\ BagCardinality(frames) < NumProcs

\* The front end invokes a command, which starts in frame f.
Invoke(f) ==
    /\ Free
    /\ budget' = budget - 1
    /\ frames' = frames (+) SetToBag({f})
    /\ response' = NoResponse

\* The lookup of the command's window failed: it returns NotFound at once.
InvokeNotFound(name, id) ==
    /\ Free
    /\ budget' = budget - 1
    /\ frames' = frames
    /\ response' = [op |-> name, wid |-> id, ret |-> NotFound, host |-> None,
                    sent |-> None, muts |-> 0, emits |-> <<>>]

\* The command in frame f takes a step that leaves it in frame g.
Step(f, g) ==
    /\ frames' = (frames (-) SetToBag({f})) (+) SetToBag({g})
    /\ response' = NoResponse

\* The command in frame f takes its last step and returns r to the front end;
\* g is its frame after that step and sent the result of its last emission.
Return(f, g, r, sent) ==
    /\ frames' = frames (-) SetToBag({f})
    /\ response' = [op |-> g.op, wid |-> g.wid, ret |-> r, host |-> g.host,
                    sent |-> sent, muts |-> g.muts, emits |-> g.emits]

\* A mutant of Acquire: the mutex is taken whether or not it is free.
AcquireBarging(f, next) ==
    /\ lock' = TRUE
    /\ Step(f, [f EXCEPT !.pc = next])
    /\ UNCHANGED <<registry, hostWindows, budget, histVars>>

\* The command in frame f takes the WindowStore mutex when it is free.
Acquire(f, next) ==
    /\ ~lock
    /\ lock' = TRUE
    /\ Step(f, [f EXCEPT !.pc = next])
    /\ UNCHANGED <<registry, hostWindows, budget, histVars>>

\* ------------------------------------------------- create_floating_window

\* A mutant of CreateNext: the registry step is taken whatever build() returned.
CreateNextAlways(window) == "c_lock"

\* match window { Ok(win) => the registry step, Err(e) => return }
CreateNext(window) == IF window = HostOk THEN "c_lock" ELSE "idle"

\* Err(e) => Err(format!("Failed to create window: {}", e))
CreateErr(window) == Err("Failed to create window: ", window.val[1])

\* The command is invoked and reads the wall clock for its window_id:
\* chrono::Utc::now().timestamp_millis() gives now, whatever it gave before
\* (the wall clock can be set back between two calls).
CreateCall(now) ==
    /\ Invoke(Frame("c_build", "create", WindowId(now), NoGeometry))
    /\ UNCHANGED <<registry, lock, hostWindows, histVars>>

\* WebviewWindowBuilder::new(&app, &window_id, ..)...build(): the host builds
\* the window, or fails; it never builds a second window under a live label.
CreateBuild(f) ==
    /\ f.pc = "c_build"
    /\ \E window \in HostResults :
        /\ window = HostOk => ~Lookup(f.wid)
        /\ IF window = HostOk
           THEN /\ hostWindows' = HostInsert(hostWindows, f.wid, NewWindow)
                /\ buildOrder' = Append(buildOrder, f.wid)
                /\ closedSinceBuild' = closedSinceBuild \ {f.wid}
           ELSE UNCHANGED <<hostWindows, buildOrder, closedSinceBuild>>
        /\ IF CreateNext(window) = "idle"
           THEN Return(f, [f EXCEPT !.host = window], CreateErr(window), None)
           ELSE Step(f, [f EXCEPT !.host = window, !.pc = CreateNext(window)])
    /\ UNCHANGED <<registry, lock, budget, returned, closedSinceReturn,
                   okCreates, closeInvoked, destroyed>>

\* window_store.lock(): the thread waits for the mutex.
CreateLock(f) ==
    /\ f.pc = "c_lock"
    /\ Acquire(f, "c_push")

\* .unwrap().push(window_id.clone()); the guard is dropped with the statement.
CreatePush(f) ==
    /\ f.pc = "c_push"
    /\ lock
    /\ registry' = Push(registry, f.wid)
    /\ lock' = FALSE
    /\ Step(f, [f EXCEPT !.pc = "c_emit",
                         !.muts = @ + (Len(registry') - Len(registry))])
    /\ UNCHANGED <<hostWindows, budget, histVars>>

\* A mutant of CreateResult: a failed emission fails the command.
CreateResultChecked(id, sent) ==
    IF sent = HostOk THEN OkId(id) ELSE Err("Failed to emit: ", sent.val[1])

\* let _ = win.emit(..); Ok(window_id): the result of the emission is dropped.
CreateResult(id, sent) == OkId(id)

\* A mutant of WindowTypeEvent: the event is emitted on the main window.
WindowTypeEventOnMain(win) ==
    [on |-> MainLabel, event |-> "window-type", payload |-> "floating-panel"]

\* win.emit("window-type", "floating-panel"): the event and its payload,
\* emitted on win, the window the command built under its window_id.
WindowTypeEvent(win) ==
    [on |-> win, event |-> "window-type", payload |-> "floating-panel"]

\* let _ = win.emit("window-type", "floating-panel"); Ok(window_id): the
\* event is emitted on the window built by this command, and the host
\* delivers it or fails.
CreateEmit(f) ==
    /\ f.pc = "c_emit"
    /\ \E sent \in HostResults :
         Return(f, [f EXCEPT !.emits = Append(@, WindowTypeEvent(f.wid))],
                CreateResult(f.wid, sent), sent)
    /\ returned' = returned \cup {f.wid}
    /\ okCreates' = okCreates + 1
    /\ closedSinceReturn' = closedSinceReturn \ {f.wid}
    /\ UNCHANGED <<registry, lock, hostWindows, budget, buildOrder,
                   closedSinceBuild, closeInvoked, destroyed>>

\* -------------------------------------------------- close_floating_window

\* A mutant of CloseNext: the registry step is taken whatever close() returned.
CloseNextAlways(closed) == "x_lock"

\* A mutant of CloseNext: after window.close() the command never goes on.
CloseNextStuck(closed) == "x_stuck"

\* window.close().map_err(..)?: an Err returns at once
CloseNext(closed) == IF closed = HostOk THEN "x_lock" ELSE "idle"

\* .map_err(|e| format!("Failed to close window: {}", e))
CloseErr(closed) == Err("Failed to close window: ", closed.val[1])

\* The command is invoked and looks the window up in the host.
CloseCall(id) ==
    /\ IF Lookup(id)
       THEN Invoke(Frame("x_close", "close", id, NoGeometry))
       ELSE InvokeNotFound("close", id)
    /\ closeInvoked' = TRUE
    /\ UNCHANGED <<registry, lock, hostWindows, returned, buildOrder,
                   closedSinceBuild, closedSinceReturn, okCreates, destroyed>>

\* window.close(): the host takes the request or fails. A request it takes
\* destroys the window at once, or later (HostDestroy), or not at all.
CloseHost(f) ==
    /\ f.pc = "x_close"
    /\ \E closed \in HostResults :
        /\ IF closed = HostOk
           THEN hostWindows' \in {HostRemove(hostWindows, f.wid), hostWindows}
           ELSE hostWindows' = hostWindows
        /\ IF CloseNext(closed) = "idle"
           THEN Return(f, [f EXCEPT !.host = closed], CloseErr(closed), None)
           ELSE Step(f, [f EXCEPT !.host = closed, !.pc = CloseNext(closed)])
    /\ UNCHANGED <<registry, lock, budget, histVars>>

\* let mut store = window_store.lock().unwrap();
CloseLock(f) ==
    /\ f.pc = "x_lock"
    /\ Acquire(f, "x_retain")

\* store.retain(|id| id != &window_id); Ok(()): the guard is dropped on return.
CloseRetain(f) ==
    /\ f.pc = "x_retain"
    /\ lock
    /\ registry' = Retain(registry, f.wid)
    /\ lock' = FALSE
    /\ Return(f, [f EXCEPT !.muts = @ + (Len(registry) - Len(registry'))],
              OkUnit, None)
    /\ closedSinceBuild' = closedSinceBuild \cup {f.wid}
    /\ closedSinceReturn' =
         IF f.wid \in returned THEN closedSinceReturn \cup {f.wid}
         ELSE closedSinceReturn
    /\ destroyed' = destroyed \ {f.wid}
    /\ UNCHANGED <<hostWindows, budget, returned, buildOrder, okCreates,
                   closeInvoked>>

\* -------------------------------------------------- list_floating_windows

\* The command is invoked.
ListCall ==
    /\ Invoke(Frame("l_lock", "list", <<>>, NoGeometry))
    /\ UNCHANGED <<registry, lock, hostWindows, histVars>>

\* window_store.lock()
ListLock(f) ==
    /\ f.pc = "l_lock"
    /\ Acquire(f, "l_clone")

\* Ok(.unwrap().clone()): the guard is dropped with the statement.
ListClone(f) ==
    /\ f.pc = "l_clone"
    /\ lock
    /\ Return(f, f, OkList(Clone(registry)), None)
    /\ lock' = FALSE
    /\ UNCHANGED <<registry, hostWindows, budget, histVars>>

\* ------------------------------- update_window_position, update_window_size

\* .map_err(|e| format!("Failed to update position: {}", e))?; Ok(())
PositionResult(moved) ==
    IF moved = HostOk THEN OkUnit
    ELSE Err("Failed to update position: ", moved.val[1])

\* .map_err(|e| format!("Failed to update size: {}", e))?; Ok(())
SizeResult(sized) ==
    IF sized = HostOk THEN OkUnit
    ELSE Err("Failed to update size: ", sized.val[1])

\* The command is invoked and looks the window up in the host.
PositionCall(id, xy) ==
    /\ IF Lookup(id)
       THEN Invoke(Frame("m_set", "position", id, xy))
       ELSE InvokeNotFound("position", id)
    /\ UNCHANGED <<registry, lock, hostWindows, histVars>>

\* window.set_position(LogicalPosition::new(x, y))
PositionSet(f) ==
    /\ f.pc = "m_set"
    /\ \E moved \in HostResults :
        /\ hostWindows' = IF moved = HostOk
                          THEN SetPosition(hostWindows, f.wid, f.geo)
                          ELSE hostWindows
        /\ Return(f, [f EXCEPT !.host = moved], PositionResult(moved), None)
    /\ UNCHANGED <<registry, lock, budget, histVars>>

\* The command is invoked and looks the window up in the host.
SizeCall(id, wh) ==
    /\ IF Lookup(id)
       THEN Invoke(Frame("s_set", "size", id, wh))
       ELSE InvokeNotFound("size", id)
    /\ UNCHANGED <<registry, lock, hostWindows, histVars>>

\* window.set_size(LogicalSize::new(width, height))
SizeSet(f) ==
    /\ f.pc = "s_set"
    /\ \E sized \in HostResults :
        /\ hostWindows' = IF sized = HostOk
                          THEN SetSize(hostWindows, f.wid, f.geo)
                          ELSE hostWindows
        /\ Return(f, [f EXCEPT !.host = sized], SizeResult(sized), None)
    /\ UNCHANGED <<registry, lock, budget, histVars>>

\* ------------------------------------------------------------ environment

\* A close() has asked the host, with success, to close the window now held
\* under label id.
CloseRequested(id) ==
    \/ id \in closedSinceBuild
    \/ \E f \in InFlight : f.op = "close" /\ f.wid = id /\ f.host = HostOk

\* The host destroys a window, the main one or a floating one, outside
\* close_floating_window: the user closes it with its own close button, or a
\* close request taken earlier is carried out. main() registers no window
\* event handler that would prevent it.
HostDestroy(id) ==
    /\ id \in Live
    /\ hostWindows' = HostRemove(hostWindows, id)
    /\ response' = NoResponse
    /\ destroyed' = IF id \in Range(registry) /\ ~CloseRequested(id)
                    THEN destroyed \cup {id}
                    ELSE destroyed
    /\ UNCHANGED <<registry, lock, frames, budget, returned, buildOrder,
                   closedSinceBuild, closedSinceReturn, okCreates, closeInvoked>>

\* ------------------------------------------------------------------ Next

Next ==
    \/ \E now \in 0..MaxClock : CreateCall(now)
    \/ \E f \in InFlight : CreateBuild(f)
    \/ \E f \in InFlight : CreateLock(f)
    \/ \E f \in InFlight : CreatePush(f)
    \/ \E f \in InFlight : CreateEmit(f)
    \/ \E id \in IdArgs : CloseCall(id)
    \/ \E f \in InFlight : CloseHost(f)
    \/ \E f \in InFlight : CloseLock(f)
    \/ \E f \in InFlight : CloseRetain(f)
    \/ ListCall
    \/ \E f \in InFlight : ListLock(f)
    \/ \E f \in InFlight : ListClone(f)
    \/ \E id \in IdArgs, xy \in PositionArgs : PositionCall(id, xy)
    \/ \E f \in InFlight : PositionSet(f)
    \/ \E id \in IdArgs, wh \in SizeArgs : SizeCall(id, wh)
    \/ \E f \in InFlight : SizeSet(f)
    \/ \E id \in IdArgs : HostDestroy(id)

Spec == Init /\ [][Next]_vars

\* The same program under a front end that invokes one command more.
SpecWide == InitWide /\ [][Next]_vars

\* A command in flight takes a step: a host call returns, the mutex is
\* acquired, or the step under the mutex is carried out.
HostCallReturns ==
    \E f \in InFlight :
        CreateBuild(f) \/ CreateEmit(f) \/ CloseHost(f) \/ PositionSet(f) \/ SizeSet(f)

LockAcquired ==
    \E f \in InFlight : CreateLock(f) \/ CloseLock(f) \/ ListLock(f)

LockedStepDone ==
    \E f \in InFlight : CreatePush(f) \/ CloseRetain(f) \/ ListClone(f)

Progress == HostCallReturns \/ LockAcquired \/ LockedStepDone

\* The worker threads are scheduled, every host call returns, and a thread
\* waiting for the mutex gets it; the front end need not invoke anything.
FairSpec ==
    /\ Spec
    /\ WF_vars(HostCallReturns)
    /\ SF_vars(LockAcquired)
    /\ WF_vars(LockedStepDone)

\* ------------------------------------------------------------------ claims

\* A create command returned Ok in the last step.
CreateReturnedOk == response.op = "create" /\ response.ret.tag = "OkId"

\* C1: every create_floating_window() that returns Ok(id) returns an id that
\* starts with "floating-", and that call's registry step appended exactly
\* one entry, the returned id, to the end of the registry.
C1_CreateAppendsReturnedId ==
    [][/\ \A f \in InFlight :
            CreatePush(f) => registry' = Append(registry, f.wid)
       /\ \A f \in InFlight :
            CreateEmit(f) =>
                /\ response'.ret = OkId(f.wid)
                /\ StartsWith(response'.ret.val, Prefix)
                /\ response'.muts = 1]_vars

\* C1's case: a create has returned the second id of a registry of two.
C1_Witness ==
    /\ CreateReturnedOk
    /\ response.ret.val = WindowId(1)
    /\ registry = <<WindowId(0), WindowId(1)>>

\* C2 as stated: close, reposition and resize of an id that create() has
\* never returned fail with "Window not found" and leave the registry as it is.
C2_NeverReturnedIsNotFound ==
    [][\A id \in IdArgs :
         (/\ id \notin returned
          /\ \/ CloseCall(id)
             \/ \E xy \in PositionArgs : PositionCall(id, xy)
             \/ \E wh \in SizeArgs : SizeCall(id, wh))
         => (response'.ret = NotFound /\ registry' = registry)]_vars

\* C3 as stated: every id in the registry is the label of a window the host
\* built and that no close() has returned Ok for since.
C3_RegistryIdsBuiltAndNotClosed ==
    \A i \in 1..Len(registry) :
        /\ registry[i] \in Range(buildOrder)
        /\ registry[i] \notin closedSinceBuild

\* C4: with no close() invoked, once no create() is in flight the registry
\* holds one entry per create() that returned Ok, and the ids it holds are
\* the ids returned.
C4_NoLostAppend ==
    (~closeInvoked /\ \A f \in InFlight : f.op # "create")
        => (Len(registry) = okCreates /\ Range(registry) = returned)

\* C4's case: two creates have both returned, the one whose clock reading was
\* the later one having appended first.
C4_Witness ==
    /\ ~closeInvoked
    /\ InFlight = {}
    /\ okCreates = 2
    /\ registry = <<WindowId(1), WindowId(0)>>

RECURSIVE IsSubseq(_, _)
\* s is t with some entries left out.
IsSubseq(s, t) ==
    IF s = <<>> THEN TRUE
    ELSE IF t = <<>> THEN FALSE
    ELSE IF Head(s) = Head(t) THEN IsSubseq(Tail(s), Tail(t))
    ELSE IsSubseq(s, Tail(t))

\* C5 as stated: the registry lists ids in the order their windows were
\* created: it is the sequence of windows built with some entries left out.
C5_RegistryInCreationOrder == IsSubseq(registry, buildOrder)

\* C5 as amended: the registry lists ids in the order they were appended: a
\* step that changes it appends one id at its end or removes the entries of
\* one id, and the entries that stay keep their relative order.
C5_AppendAtEndOrRemove ==
    [][registry' # registry =>
         \/ \E f \in InFlight : registry' = Append(registry, f.wid)
         \/ /\ IsSubseq(registry', registry)
            /\ \E id \in Range(registry) :
                  Range(registry') = Range(registry) \ {id}]_vars

\* C5's case: three ids were appended, a close has removed the second, and
\* the first and the third are still listed, in that order.
C5_Witness ==
    /\ response.op = "close"
    /\ response.ret = OkUnit
    /\ response.muts = 1
    /\ response.wid = WindowId(1)
    /\ returned = {WindowId(0), WindowId(1), WindowId(2)}
    /\ buildOrder = <<WindowId(0), WindowId(1), WindowId(2)>>
    /\ registry = <<WindowId(0), WindowId(2)>>


\* C6 as stated: once create() has returned id and a later close(id) has
\* returned Ok, the registry, which is what list() returns, does not hold id
\* until a create() returns id again.
C6_ClosedIdNotListed ==
    \A id \in closedSinceReturn : id \notin Range(registry)

\* C6 as amended: once create() has returned id and a later close(id) has
\* returned Ok, the registry does not hold id until a create() appends id
\* again: if it holds id, a create() that has appended id is about to return.
C6_ClosedIdListedOnlyByNewCreate ==
    \A id \in closedSinceReturn :
        id \in Range(registry) =>
            \E f \in InFlight : f.op = "create" /\ f.wid = id /\ f.pc = "c_emit"

\* C6's case: create() returned an id, close() of that id has just returned
\* Ok having removed it, and the registry is empty.
C6_Witness ==
    /\ response.op = "close"
    /\ response.ret = OkUnit
    /\ response.muts = 1
    /\ response.wid \in closedSinceReturn
    /\ registry = <<>>

\* C7: when the host fails to build the window, create() returns "Failed to
\* create window: ..." having appended nothing and emitted nothing, and no
\* create goes on to the registry after a failed build.
C7_BuildFailureLeavesRegistry ==
    /\ (response.op = "create" /\ response.host.tag = "HostErr") =>
          /\ response.ret.tag = "Err"
          /\ response.ret.val = <<"Failed to create window: ", response.host.val[1]>>
          /\ response.muts = 0
          /\ response.emits = <<>>
    /\ \A f \in InFlight : f.op = "create" => f.host.tag # "HostErr"

\* C7's case: a create has failed in the host while the registry held an id.
C7_Witness ==
    /\ response.op = "create"
    /\ response.host.tag = "HostErr"
    /\ registry = <<WindowId(0)>>

\* C8: when the host holds the window but fails to close it, close() returns
\* "Failed to close window: ..." having removed nothing, and no close goes on
\* to the registry after a failed host close.
C8_CloseFailureLeavesRegistry ==
    /\ (response.op = "close" /\ response.host.tag = "HostErr") =>
          /\ response.ret.tag = "Err"
          /\ response.ret.val = <<"Failed to close window: ", response.host.val[1]>>
          /\ response.muts = 0
    /\ \A f \in InFlight : f.op = "close" => f.host.tag # "HostErr"

\* C8's case: the close of a listed id has failed in the host, and the id is
\* still listed.
C8_Witness ==
    /\ response.op = "close"
    /\ response.host.tag = "HostErr"
    /\ response.wid = WindowId(0)
    /\ registry = <<WindowId(0)>>

\* Between this state and the next only the position (size) of window id may
\* differ in the host.
OnlyPositionOf(id) ==
    /\ DOMAIN hostWindows' = DOMAIN hostWindows
    /\ \A l \in Live :
        /\ hostWindows'[l].size = hostWindows[l].size
        /\ l # id => hostWindows'[l].pos = hostWindows[l].pos

OnlySizeOf(id) ==
    /\ DOMAIN hostWindows' = DOMAIN hostWindows
    /\ \A l \in Live :
        /\ hostWindows'[l].pos = hostWindows[l].pos
        /\ l # id => hostWindows'[l].size = hostWindows[l].size

\* C9: no step of update_window_position or update_window_size changes the
\* registry, whatever it returns; a successful one sets the position,
\* respectively the size, of the window labelled id to its arguments and
\* changes nothing else in the host. (A call step is told from the other
\* steps by what follows from it: a command was invoked, and it returned at
\* once exactly if the lookup failed.)
C9_UpdatesLeaveRegistry ==
    [][/\ \A id \in IdArgs :
            (/\ budget' # budget
             /\ response'.op \in {"none", "position", "size"}
             /\ response'.op = "none" <=> Lookup(id)
             /\ \/ \E xy \in PositionArgs : PositionCall(id, xy)
                \/ \E wh \in SizeArgs : SizeCall(id, wh))
            => (registry' = registry /\ hostWindows' = hostWindows)
       /\ \A f \in InFlight :
            (f.pc = "m_set" /\ response'.op = "position" /\ PositionSet(f)) =>
                /\ registry' = registry
                /\ OnlyPositionOf(f.wid)
                /\ (response'.ret = OkUnit /\ f.wid \in Live)
                      => hostWindows'[f.wid].pos = f.geo
                /\ response'.ret # OkUnit => hostWindows' = hostWindows
       /\ \A f \in InFlight :
            (f.pc = "s_set" /\ response'.op = "size" /\ SizeSet(f)) =>
                /\ registry' = registry
                /\ OnlySizeOf(f.wid)
                /\ (response'.ret = OkUnit /\ f.wid \in Live)
                      => hostWindows'[f.wid].size = f.geo
                /\ response'.ret # OkUnit => hostWindows' = hostWindows]_vars

\* C9's case: a listed window has been moved and then resized, each with
\* success.
C9_Witness ==
    /\ response.op = "size"
    /\ response.ret = OkUnit
    /\ response.wid \in Range(registry)
    /\ response.wid \in Live
    /\ hostWindows[response.wid] = [pos |-> <<10, 20>>, size |-> <<640, 480>>]

\* C10: list() returns Ok with the registry as it is at the instant of its
\* clone, entry for entry, whether or not the host still holds their
\* windows, and has changed nothing in the registry.
C10_ListReturnsRegistry ==
    response.op = "list" =>
        /\ response.ret.tag = "OkList"
        /\ response.ret.val = registry
        /\ response.muts = 0

\* C10's case: list() has returned an id whose window the host no longer holds.
C10_Witness ==
    /\ response.op = "list"
    /\ response.ret.tag = "OkList"
    /\ \E i \in 1..Len(response.ret.val) : response.ret.val[i] \notin Live


\* The frame in which close, update_window_position or update_window_size is
\* about to make its host call on window id.
AtHostCall(f, name, id) ==
    /\ f.op = name
    /\ f.wid = id
    /\ f.pc = (CASE name = "close" -> "x_close"
                 [] name = "position" -> "m_set"
                 [] name = "size" -> "s_set")

\* The step in which the command called name is invoked on id and looks it up.
LookupStep(name, id) ==
    CASE name = "close" -> CloseCall(id)
      [] name = "position" -> \E xy \in PositionArgs : PositionCall(id, xy)
      [] name = "size" -> \E wh \in SizeArgs : SizeCall(id, wh)

\* C11: close, update_window_position and update_window_size return "Window
\* not found" exactly when the host holds no window labelled id at the
\* lookup, whatever the registry holds; for a label the host holds the call
\* goes on to its host operation. (A lookup step is told from the other
\* steps by what follows from it: a command was invoked, and it returned at
\* once exactly if the lookup failed.)
C11_NotFoundFromHostOnly ==
    [][\A name \in {"close", "position", "size"} : \A id \in IdArgs :
         (/\ budget' # budget
          /\ response'.op \in {"none", name}
          /\ response'.op = name => response'.wid = id
          /\ response'.op = "none" <=> Lookup(id)
          /\ LookupStep(name, id)) =>
            /\ (response'.op = name /\ response'.ret = NotFound) <=> id \notin Live
            /\ id \in Live =>
                 \E f \in BagToSet(frames') :
                    /\ AtHostCall(f, name, id)
                    /\ CopiesIn(f, frames') = CopiesIn(f, frames) + 1
            /\ registry' = registry]_vars

\* C11's case: update_window_position has moved, with success, a window the
\* host holds and the registry does not list.
C11_Witness ==
    /\ response.op = "position"
    /\ response.ret = OkUnit
    /\ response.wid = MainLabel
    /\ registry # <<>>
    /\ response.wid \notin Range(registry)
    /\ hostWindows[MainLabel].pos = <<10, 20>>


\* The steps at which a command holds the WindowStore mutex (push in create,
\* retain in close, clone in list) and those at which it is at a host call.
LockedSteps == {"c_push", "x_retain", "l_clone"}

HostSteps == {"c_build", "c_emit", "x_close", "m_set", "s_set"}

\* The commands in flight that are at a step of the set steps.
FramesAt(steps) ==
    [f \in {g \in InFlight : g.pc \in steps} |-> CopiesIn(f, frames)]

\* C12: the WindowStore mutex is held exactly while one command is at its
\* in-memory step (push, retain or clone): never by a command that is at a
\* host call or waiting, never by two commands, and never once its holder
\* has returned.
C12_LockOnlyAroundMemoryStep ==
    /\ BagCardinality(FramesAt(LockedSteps)) = (IF lock THEN 1 ELSE 0)
    /\ lock => BagCardinality(FramesAt(HostSteps)) < BagCardinality(frames)
    /\ frames = EmptyBag => ~lock

\* C12's case: one command holds the mutex for its push while another is at
\* its host call.
C12_Witness ==
    /\ lock
    /\ \E f, g \in InFlight :
        /\ f.pc = "c_push"
        /\ g.pc = "x_close"


\* C13 as stated: the registry never holds the same id twice.
C13_NoDuplicateIds ==
    \A i, j \in 1..Len(registry) : registry[i] = registry[j] => i = j


\* C14: once the host has destroyed, outside close(), a window whose id is
\* listed, no step removes the id from the registry, and every close(id)
\* invoked from then on returns "Window not found" and leaves the registry
\* alone.
C14_DestroyedIdStaysListed ==
    [][\A id \in destroyed :
         /\ id \in Range(registry')
         /\ CloseCall(id) => (response'.ret = NotFound /\ registry' = registry)]_vars


\* C15 as stated: once close(id) has returned Ok for an id that create()
\* returned, and as long as no window is built under id again, every
\* close(id) invoked returns "Window not found" and leaves the registry alone.
C15_SecondCloseNotFound ==
    [][\A id \in closedSinceBuild \cap returned :
         CloseCall(id) =>
            /\ response'.ret.tag = "Err"
            /\ response'.ret.val = <<"Window not found">>
            /\ registry' = registry]_vars

\* C15 as amended: the same, once the host no longer holds the window that
\* the first close(id) asked it to close.
C15_SecondCloseNotFoundOnceDestroyed ==
    [][\A id \in closedSinceBuild \cap returned :
         (CloseCall(id) /\ id \notin Live) =>
            /\ response'.ret.tag = "Err"
            /\ response'.ret.val = <<"Window not found">>
            /\ registry' = registry]_vars

\* C15's case: create() returned an id, a close of it returned Ok, and a
\* second close of it has just returned "Window not found".
C15_Witness ==
    /\ response.op = "close"
    /\ response.ret.tag = "Err"
    /\ response.ret.val = <<"Window not found">>
    /\ response.wid \in returned
    /\ response.wid \in closedSinceBuild


\* C16: a create() in flight has emitted nothing, and is at its emission
\* exactly if it has pushed; a create() that has returned Ok(id) has pushed
\* once and then emitted exactly one event: "window-type" with payload
\* "floating-panel", on the window it built under id; one that has returned
\* an error has emitted nothing; the result of the emission is ignored: after
\* a failed one create() has returned Ok(id) all the same, its push not undone.
C16_EmitOnceAfterPush ==
    /\ \A f \in InFlight : f.op = "create" =>
          /\ f.emits = <<>>
          /\ f.muts = (IF f.pc = "c_emit" THEN 1 ELSE 0)
    /\ response.op = "create" =>
          /\ response.ret.tag \in {"OkId", "Err"}
          /\ response.ret.tag = "OkId" =>
                /\ response.ret.val = response.wid
                /\ response.muts = 1
                /\ Len(response.emits) = 1
                /\ response.emits[1].event = "window-type"
                /\ response.emits[1].payload = "floating-panel"
                /\ response.emits[1].on = response.ret.val
                /\ response.sent \in HostResults
          /\ response.ret.tag = "Err" =>
                /\ response.host.tag = "HostErr"
                /\ response.emits = <<>>
                /\ response.sent = None
          /\ response.sent.tag = "HostErr" => response.ret.tag = "OkId"
    /\ response.op \notin {"none", "create"} => response.emits = <<>>

\* C16's case: the emission on the new window failed, create() has returned
\* Ok(id) all the same, and the id is listed.
C16_Witness ==
    /\ response.op = "create"
    /\ response.sent.tag = "HostErr"
    /\ response.ret.tag = "OkId"
    /\ response.emits =
         <<[on |-> response.ret.val, event |-> "window-type",
            payload |-> "floating-panel"]>>
    /\ response.ret.val \in Range(registry)


\* A command in flight can take a step.
NoDeadlock == frames # EmptyBag => ENABLED Progress

\* No command is in flight and the mutex is free.
Quiescent == frames = EmptyBag /\ ~lock

\* C17: no state with a command in flight is a deadlock, and under FairSpec
\* every command invoked returns with the mutex free: whenever commands are
\* in flight, a state with none in flight and the mutex free follows, and no
\* command waits for the mutex for ever.
C17_NoDeadlockAllReturn ==
    /\ []NoDeadlock
    /\ [](frames # EmptyBag => <>Quiescent)
    /\ \A step \in {"c_lock", "x_lock", "l_lock"} :
          (\E f \in InFlight : f.pc = step) ~> (\A f \in InFlight : f.pc # step)

\* C17's case: a command holds the mutex for its push while another waits
\* for the mutex.
C17_Witness ==
    /\ lock
    /\ \E f, g \in InFlight :
        /\ f.pc = "c_push"
        /\ g.pc = "x_lock"

====
